---- MODULE Spec2Model ----
(***************************************************************************)
(* A model of the paginated collection engine of src/tokbd.py              *)
(* (TokBDScraper): main, load_progress, scrape_all_pages, scrape_page,     *)
(* safe_goto, the content gate, the merge loop and save_progress.          *)
(* The rendering engine, the site and the disk are the environment: every  *)
(* navigation, probe, extraction and file write takes one of the outcomes  *)
(* the code distinguishes.                                                 *)
(* Two further programs of the repository have a specification of their    *)
(* own over their own variables: SkinnoraScraper.scrape_all_pages of       *)
(* src/skinnora.py (SkSpec) and the matching loop of                       *)
(* src/compare_prices.py (CpSpec). Each specification runs one program and *)
(* leaves the variables of the others as constructed.                      *)
(***************************************************************************)
EXTENDS Integers, Sequences, FiniteSets, TLC

\* ---------------------------------------------------------------- bounds
\* A run is explored under one of six budgets of what the site does to
\* it: many records and no failing page; few records and failing pages; any
\* checkpoint file on disk and no failing page; a resumable checkpoint file
\* and failing pages; a long run of pages of one record; the checkpoint of
\* a run that ended at its first page, and failing pages.
NumUrls == 3          \* distinct product urls the site can serve
MaxPageLen == 2       \* records one extraction returns at most
MaxPages == 6         \* the max_pages argument of scrape_all_pages
MaxStream == 4        \* records extracted in a run without failing pages
MaxFaults == 2        \* pages that fail to load or to show content in a run
FaultyStream == 2     \* records extracted in a run with failing pages
ResumeStream == 1     \* records extracted in a run that finds a checkpoint
ResumeFaults == 1     \* failing pages in a run that finds a checkpoint
MaxRetriesBound == 3  \* largest max_retries a scraper is constructed with
LongStream == 5       \* records extracted in a run of one-record pages

\* ------------------------------------------------------ program constants
DefaultMaxRetries == 3
BaseDelay == 5
CheckpointEvery == 5
NumStrategies == 3
NumSelectors == 2

\* ------------------------------------------------------------------ data
NoUrl == 0            \* stands for a product without a url key
Urls == 1..NumUrls
BadNumber == -1       \* stands for a pages_scraped that is no number

\* A record of extract_product_data: the url and the card index.
Rec(u, k) == [url |-> u, index |-> k]

\* What one call of extract_product_data can return: the cards in page
\* order, each with its index.
SetMax(S) == IF S = {} THEN 0 ELSE CHOOSE x \in S : \A y \in S : y <= x

\* Urls are names: a url no run has met yet is the next unused number.
Named(f, n, known) ==
    \A k \in 1..n : f[k] <= SetMax(known \cup {f[j] : j \in 1..(k - 1)}) + 1

PageResults(maxlen, known) ==
    UNION {{[k \in 1..n |-> Rec(f[k], k)] :
               f \in {g \in [1..n -> Urls] : Named(g, n, known)}} : n \in 0..maxlen}

\* The products list of a checkpoint file: written by an earlier run or by
\* hand, so a product may lack its url key and a url may be there twice.
CkptProducts ==
    UNION {{[k \in 1..n |-> Rec(f[k], 1)] :
               f \in {g \in [1..n -> {NoUrl} \cup Urls] : Named(g, n, {})}}
              : n \in 0..2}

\* tokbd_products.json: missing, not a JSON object, or the object that
\* save_progress writes (the fields load_progress reads).
Absent ==
    [status |-> "absent", products |-> <<>>, pages_scraped |-> 0,
     failed_pages |-> <<>>]

Unparsable ==
    [status |-> "unparsable", products |-> <<>>, pages_scraped |-> 0,
     failed_pages |-> <<>>]

CkptFiles ==
    [status : {"ok"},
     products : CkptProducts,
     pages_scraped : {0, 1, CheckpointEvery - 1, MaxPages - 1, BadNumber},
     failed_pages : {<<>>, <<1>>}]

Files == {Absent, Unparsable} \cup CkptFiles

\* The checkpoints of one product that load_progress accepts.
ResumableFiles ==
    {f \in CkptFiles : f.products = <<Rec(1, 1)>> /\ f.pages_scraped # BadNumber}

\* The checkpoint the final save leaves when page 1 failed to load and the
\* lookahead of page 2 found nothing: no product, current_page still 1.
EndedAtFirstPage ==
    [status |-> "ok", products |-> <<>>, pages_scraped |-> 0,
     failed_pages |-> <<1>>]

\* The emergency backup: nothing, or the items list alone.
NoBackup == [status |-> "absent", items |-> <<>>]

HasUrl(p) == p.url # NoUrl

\* {p['url'] for p in items}
UrlsOf(items) == {items[k].url : k \in 1..Len(items)}

VARIABLES
    pc,             \* position of the single thread of control
    max_retries,    \* TokBDScraper.max_retries
    all_products,   \* TokBDScraper.all_products
    failed_pages,   \* TokBDScraper.failed_pages
    seen_urls,      \* TokBDScraper.seen_urls
    current_page,   \* TokBDScraper.current_page
    file,           \* tokbd_products.json on disk
    emergency,      \* the emergency backup written by this run
    page_num,       \* loop variable of scrape_all_pages
    cur,            \* page_num argument of the running scrape_page
    probe,          \* TRUE while the running scrape_page is the lookahead
    retry_count,    \* retry_count of the running safe_goto
    strategy,       \* index into strategies of the running safe_goto
    goto_result,    \* value safe_goto returned, "none" otherwise
    sel,            \* index into content_selectors
    products,       \* local products of scrape_page
    new_products,   \* local new_products of scrape_page
    idx,            \* position of the merge loop in products
    sp_result,      \* value scrape_page returned, "none" otherwise
    \* history variables
    attempts,       \* how each attempt of the running safe_goto ended
    delays,         \* the backoff sleeps of the running safe_goto
    stream,         \* every record merged so far, in processing order
    loaded,         \* what load_progress returned, "none" if not called
    ckpt0,          \* the file load_progress read, Absent if not called
    start_products, \* all_products when scrape_all_pages started
    start_seen,     \* seen_urls when scrape_all_pages started
    kind,           \* how the last scrape_page call ended
    main_kind,      \* how the main-loop call of this iteration ended
    n_new,          \* new records of the last scrape_page call
    fp0,            \* failed_pages at the start of this iteration
    streak,         \* consecutive pages p, p+1 without a new record
    streak_page,    \* the last page counted in streak
    broke,          \* TRUE once the loop ended by break
    faults,         \* pages that failed to load or to show content so far
    budget,         \* the records and failing pages the site has for this run
    saved,          \* what the last save_progress returned, "none" before
    fatal,          \* TRUE once the handler of scrape_all_pages was entered
    file0,          \* tokbd_products.json as the run found it
    last_ckpt,      \* page of the last cadence save, pages loaded before one
    tried,          \* wait conditions navigated in this safe_goto attempt
    gate_log,       \* how each probe of the running content gate ended
    \* SkinnoraScraper (src/skinnora.py)
    sk_pc,            \* position of the thread of control, "off" if not run
    total_pages,      \* SkinnoraScraper.total_pages, NoTotal for None
    sk_all_products,  \* SkinnoraScraper.all_products
    sk_failed_pages,  \* SkinnoraScraper.failed_pages
    sk_current_page,  \* SkinnoraScraper.current_page
    sk_page_num,      \* loop variable of scrape_all_pages
    sk_success,       \* what the last scrape_page returned, "none" before
    sk_file,          \* skinnora_products.json on disk
    sk_emergency,     \* the emergency backup written by this run
    indicator,        \* history: what total-page discovery saw on page 1
    visited,          \* history: the page_num of every scrape_page call
    \* compare_prices.main (src/compare_prices.py)
    cp_pc,            \* position of main, "off" if not run
    scores,           \* token_set_ratio of every pair of normalized names
    threshold,        \* args.threshold
    p1_idx,           \* i of the outer loop, counted from 1
    p2_idx,           \* j of the inner loop, counted from 1
    best_score,       \* best_score of the outer iteration
    best_idx,         \* best_idx of the outer iteration, NoIdx for -1
    matches,          \* the list matches
    matched_file2_indices  \* the set matched_file2_indices

vars == <<pc, max_retries, all_products, failed_pages, seen_urls, current_page,
          file, emergency, page_num, cur, probe, retry_count, strategy,
          goto_result, sel, products, new_products, idx, sp_result, attempts,
          delays, stream, loaded, ckpt0, start_products, start_seen, kind,
          main_kind, n_new, fp0, streak, streak_page, broke, faults, budget,
          saved, fatal, file0, last_ckpt, tried, gate_log,
          sk_pc, total_pages, sk_all_products, sk_failed_pages,
          sk_current_page, sk_page_num, sk_success, sk_file, sk_emergency,
          indicator, visited,
          cp_pc, scores, threshold, p1_idx, p2_idx, best_score, best_idx,
          matches, matched_file2_indices>>

state == <<all_products, failed_pages, seen_urls, current_page>>
disk == <<file, emergency>>
loopv == <<page_num, fp0, main_kind, broke>>
callv == <<cur, probe>>
gotov == <<retry_count, strategy, goto_result, attempts, delays>>
pagev == <<sel, products, new_products, idx>>
retv == <<sp_result, kind, n_new, streak, streak_page>>
startv == <<loaded, ckpt0, start_products, start_seen>>
envv == <<stream, faults>>
\* The state of SkinnoraScraper.
skv == <<sk_pc, total_pages, sk_all_products, sk_failed_pages,
         sk_current_page, sk_page_num, sk_success, sk_file, sk_emergency,
         indicator, visited>>

\* The state of compare_prices.main.
cpv == <<cp_pc, scores, threshold, p1_idx, p2_idx, best_score, best_idx,
         matches, matched_file2_indices>>

\* What a run of TokBDScraper never changes: its configuration, the file it
\* found, and the state of the other programs of the repository.
conf == <<max_retries, budget, file0, skv, cpv>>
endv == <<saved, fatal>>
histv == <<last_ckpt, tried, gate_log>>

\* ------------------------------------------------------------------ Init
\* TokBDScraper.__init__, with whatever checkpoint file is on disk.
InitWith(retries, files, records, failing, pagelen) ==
    /\ pc = "main"
    /\ max_retries \in retries
    /\ budget = [records |-> records, faults |-> failing, pagelen |-> pagelen]
    /\ all_products = <<>>
    /\ failed_pages = <<>>
    /\ seen_urls = {}
    /\ current_page = 1
    /\ file \in files
    /\ emergency = NoBackup
    /\ page_num = 0
    /\ cur = 0
    /\ probe = FALSE
    /\ retry_count = 0
    /\ strategy = 1
    /\ goto_result = "none"
    /\ sel = 1
    /\ products = <<>>
    /\ new_products = <<>>
    /\ idx = 1
    /\ sp_result = "none"
    /\ attempts = <<>>
    /\ delays = <<>>
    /\ stream = <<>>
    /\ loaded = "none"
    /\ ckpt0 = Absent
    /\ start_products = <<>>
    /\ start_seen = {}
    /\ kind = "none"
    /\ main_kind = "none"
    /\ n_new = 0
    /\ fp0 = <<>>
    /\ streak = 0
    /\ streak_page = 0
    /\ broke = FALSE
    /\ faults = 0
    /\ saved = "none"
    /\ fatal = FALSE
    /\ file0 = file
    /\ last_ckpt = 0
    /\ tried = <<>>
    /\ gate_log = <<>>

NoTotal == 0           \* stands for total_pages = None
NoIndicator == 0       \* page 1 has no nav.woocommerce-pagination
EvaluateFailed == -1   \* page.evaluate of get_total_pages raised

\* A SkinnoraScraper as constructed; sk_pc says whether it is run.
SkConstructed(at) ==
    /\ sk_pc = at
    /\ total_pages = NoTotal
    /\ sk_all_products = <<>>
    /\ sk_failed_pages = <<>>
    /\ sk_current_page = 1
    /\ sk_page_num = 0
    /\ sk_success = "none"
    /\ sk_file = Absent
    /\ sk_emergency = NoBackup
    /\ indicator = NoIndicator
    /\ visited = <<>>

NoIdx == 0             \* stands for best_idx = -1 (indices count from 1)

\* compare_prices.main before its first statement, over the given scores.
CpStarted(at, table, limit) ==
    /\ cp_pc = at
    /\ scores = table
    /\ threshold = limit
    /\ p1_idx = 1
    /\ p2_idx = 1
    /\ best_score = 0
    /\ best_idx = NoIdx
    /\ matches = <<>>
    /\ matched_file2_indices = {}

TokInit ==
    \/ InitWith({DefaultMaxRetries}, {Absent}, MaxStream, 0, MaxPageLen)
    \/ InitWith(1..MaxRetriesBound, {Absent}, FaultyStream, MaxFaults, MaxPageLen)
    \/ InitWith({DefaultMaxRetries}, Files, ResumeStream, 0, MaxPageLen)
    \/ InitWith({DefaultMaxRetries}, ResumableFiles, ResumeStream, ResumeFaults,
                MaxPageLen)
    \/ InitWith({DefaultMaxRetries}, {Absent}, LongStream, 0, 1)
    \/ InitWith({DefaultMaxRetries}, {EndedAtFirstPage}, ResumeStream,
                ResumeFaults, MaxPageLen)

\* tokbd.py is run; the other programs are not.
Init == TokInit /\ SkConstructed("off") /\ CpStarted("off", <<>>, 0)

\* --------------------------------------------------------- load_progress
\* A resume that starts at the last page already scraped.
ResumePageSame(ps) == ps

\* current_page = data.get('pages_scraped', 0) + 1
ResumePage(ps) == ps + 1

\* A load_progress that restores the cursor and forgets the products.
LoadProgressNoItems(f) ==
    [all_products |-> <<>>, seen_urls |-> {},
     current_page |-> IF f.status = "ok" /\ f.pages_scraped # BadNumber
                        THEN f.pages_scraped + 1 ELSE 1,
     failed_pages |-> IF f.status = "ok" THEN f.failed_pages ELSE <<>>,
     ok |-> IF f.status = "ok" /\ f.pages_scraped # BadNumber
              THEN "True" ELSE "False"]

\* The fields of the scraper after load_progress read file f, assigned in
\* the order of the code: an exception at one assignment keeps the ones
\* before it and skips the ones after it.
LoadProgress(f) ==
    LET old == [all_products |-> all_products, seen_urls |-> seen_urls,
                current_page |-> current_page, failed_pages |-> failed_pages,
                ok |-> "False"]
        s1 == [old EXCEPT !.all_products = f.products]
        s2 == [s1 EXCEPT !.seen_urls = UrlsOf(f.products)]
        s3 == [s2 EXCEPT !.current_page = ResumePage(f.pages_scraped)]
        s4 == [s3 EXCEPT !.failed_pages = f.failed_pages, !.ok = "True"]
    IN  IF f.status # "ok" THEN old
        ELSE IF \E k \in 1..Len(f.products) : ~HasUrl(f.products[k]) THEN s1
        ELSE IF f.pages_scraped = BadNumber THEN s2
        ELSE s4

\* ------------------------------------------------------------------ main
\* choice "2": a full scrape with a scraper as constructed.
MainFull ==
    /\ pc = "main"
    /\ pc' = "setup"
    /\ start_products' = all_products
    /\ start_seen' = seen_urls
    /\ UNCHANGED <<conf, state, disk, loopv, callv, gotov, pagev, retv,
                   envv, loaded, ckpt0, endv, histv>>

\* choice "3": load_progress, then scrape_all_pages whatever it returned.
MainResume ==
    /\ pc = "main"
    /\ LET s == LoadProgress(file)
       IN  /\ all_products' = s.all_products
           /\ seen_urls' = s.seen_urls
           /\ current_page' = s.current_page
           /\ failed_pages' = s.failed_pages
           /\ loaded' = s.ok
           /\ start_products' = s.all_products
           /\ start_seen' = s.seen_urls
           /\ last_ckpt' = s.current_page - 1
    /\ ckpt0' = file
    /\ pc' = "setup"
    /\ UNCHANGED <<conf, disk, loopv, callv, gotov, pagev, retv, envv,
                   endv, tried, gate_log>>

\* ------------------------------------------------------ scrape_all_pages
\* setup_browser returns the page handle or raises.
SetupBrowser ==
    /\ pc = "setup"
    /\ \E ok \in BOOLEAN :
          IF ok THEN /\ pc' = "loop"
                     /\ page_num' = current_page
                     /\ UNCHANGED fatal
                ELSE /\ pc' = "fatal"
                     /\ page_num' = page_num
                     /\ fatal' = TRUE
    /\ UNCHANGED <<conf, state, disk, fp0, main_kind, broke, callv,
                   gotov, pagev, retv, envv, startv, saved, histv>>

\* The call scrape_page(page, n): safe_goto starts with retry_count = 0.
CallScrapePage(n, isProbe) ==
    /\ cur' = n
    /\ probe' = isProbe
    /\ retry_count' = 0
    /\ strategy' = 1
    /\ goto_result' = "none"
    /\ attempts' = <<>>
    /\ delays' = <<>>
    /\ pc' = "goto"

\* for page_num in range(self.current_page, max_pages + 1)
LoopNext ==
    /\ pc = "loop"
    /\ IF page_num <= MaxPages
         THEN /\ current_page' = page_num
              /\ fp0' = failed_pages
              /\ main_kind' = "none"
              /\ CallScrapePage(page_num, FALSE)
         ELSE /\ pc' = "final_save"
              /\ UNCHANGED <<current_page, fp0, main_kind, callv, gotov>>
    /\ UNCHANGED <<conf, all_products, failed_pages, seen_urls, disk,
                   page_num, broke, pagev, retv, envv, startv, endv, histv>>

\* -------------------------------------------------------------- safe_goto
\* A retry test that is off by one.
MayRetryOnceMore(rc, mr) == rc < mr

\* if retry_count < self.max_retries - 1
MayRetry(rc, mr) == rc < mr - 1

\* await asyncio.sleep(5 * (retry_count + 1))
Backoff(rc) == BaseDelay * (rc + 1)

\* What safe_goto does when its final navigation ends as `outcome`:
\* return True, sleep and call itself with retry_count + 1, or return False.
AfterCommit(outcome, rc, mr) ==
    IF outcome = "ok" THEN "True"
    ELSE IF outcome = "timeout" /\ MayRetry(rc, mr) THEN "retry"
    ELSE "False"

\* A strategies list that starts with the weakest wait condition.
StrategiesLoadFirst == <<"load", "domcontentloaded", "networkidle">>

\* strategies = ['networkidle', 'domcontentloaded', 'load']
Strategies == <<"networkidle", "domcontentloaded", "load">>

\* One page.goto(url, wait_until=strategy): it completes, or raises and the
\* loop moves on to the next strategy.
GotoStrategy ==
    /\ pc = "goto"
    /\ tried' = (IF strategy = 1 THEN <<>> ELSE tried) \o <<Strategies[strategy]>>
    /\ \E ok \in BOOLEAN :
          IF ok
            THEN /\ goto_result' = "True"
                 /\ attempts' = Append(attempts, "ok")
                 /\ pc' = "goto_ret"
                 /\ strategy' = strategy
            ELSE /\ IF strategy < NumStrategies
                      THEN /\ strategy' = strategy + 1
                           /\ pc' = "goto"
                      ELSE /\ strategy' = strategy
                           /\ pc' = "commit"
                 /\ UNCHANGED <<goto_result, attempts>>
    /\ UNCHANGED <<conf, state, disk, loopv, callv, retry_count, delays,
                   pagev, retv, envv, startv, endv, last_ckpt, gate_log>>

\* A safe_goto that records the page it gave up on.
FailedAfterGotoRecorded(fp, page, result) ==
    IF result = "False" THEN Append(fp, page) ELSE fp

\* failed_pages after safe_goto ended an attempt for `page` with `result`:
\* safe_goto assigns no field of the scraper.
FailedAfterGoto(fp, page, result) == fp

\* The final page.goto(url, wait_until='commit') and the two handlers.
GotoCommit ==
    /\ pc = "commit"
    /\ \E outcome \in {"ok", "timeout", "error"} :
          LET next == AfterCommit(outcome, retry_count, max_retries)
          IN  /\ next = "False" => faults < budget.faults
              /\ faults' = IF next = "False" THEN faults + 1 ELSE faults
              /\ attempts' = Append(attempts, outcome)
              /\ tried' = Append(tried, "commit")
              /\ failed_pages' = FailedAfterGoto(failed_pages, cur, next)
              /\ IF next = "retry"
                   THEN /\ delays' = Append(delays, Backoff(retry_count))
                        /\ retry_count' = retry_count + 1
                        /\ strategy' = 1
                        /\ pc' = "goto"
                        /\ UNCHANGED goto_result
                   ELSE /\ goto_result' = next
                        /\ pc' = "goto_ret"
                        /\ UNCHANGED <<delays, retry_count, strategy>>
    /\ UNCHANGED <<conf, all_products, seen_urls, current_page, disk, loopv,
                   callv, pagev, retv, stream, startv, endv, last_ckpt,
                   gate_log>>

\* ------------------------------------------------------------ scrape_page
\* The streak of pages p, p+1 that brought no new record, the first of them
\* a main-loop page; 2 once two such pages followed each other.
StreakAfter(n) ==
    IF streak = 2 THEN 2
    ELSE IF n > 0 THEN 0
    ELSE IF streak = 1 /\ streak_page = cur - 1 THEN 2
    ELSE IF ~probe THEN 1
    ELSE 0

\* scrape_page returns val; k and n record how it ended.
Return(val, k, n) ==
    /\ sp_result' = val
    /\ kind' = k
    /\ n_new' = n
    /\ streak' = StreakAfter(n)
    /\ streak_page' = IF streak = 2 \/ n > 0 THEN streak_page ELSE cur
    /\ sel' = 1
    /\ products' = <<>>
    /\ new_products' = <<>>
    /\ idx' = 1
    /\ pc' = "sp_ret"

\* A scrape_page that goes on to the gate whatever safe_goto returned.
NavFailedNever(r) == FALSE

\* if not await self.safe_goto(page, url)
NavFailed(r) == r = "False"

\* if not await self.safe_goto(page, url): failed_pages.append; return False.
\* The locals of the safe_goto call end with it.
AfterGoto ==
    /\ pc = "goto_ret"
    /\ IF NavFailed(goto_result)
         THEN /\ failed_pages' = Append(failed_pages, cur)
              /\ Return("False", "navfail", 0)
         ELSE /\ pc' = "gate"
              /\ sel' = 1
              /\ UNCHANGED <<failed_pages, retv, products, new_products, idx>>
    /\ goto_result' = "none"
    /\ attempts' = <<>>
    /\ delays' = <<>>
    /\ tried' = <<>>
    /\ retry_count' = 0
    /\ strategy' = 1
    /\ UNCHANGED <<conf, all_products, seen_urls, current_page, disk,
                   loopv, callv, envv, startv, endv, last_ckpt, gate_log>>

\* A safe_wait_for_selector that takes an error for content.
SafeWaitUnlessTimeout(outcome) == outcome # "timeout"

\* safe_wait_for_selector: True when the selector became visible, False
\* after a timeout and after any other error.
SafeWait(outcome) == outcome = "visible"

\* One safe_wait_for_selector of the content gate: the first hit ends the
\* loop, a miss (timeout or error) moves on to the next selector.
GateProbe ==
    /\ pc = "gate"
    /\ \E outcome \in {"visible", "timeout", "error"} :
          /\ gate_log' = Append(gate_log, outcome)
          /\ IF SafeWait(outcome)
               THEN /\ pc' = "ready"
                    /\ sel' = sel
                    /\ UNCHANGED faults
               ELSE IF sel < NumSelectors
                      THEN /\ sel' = sel + 1
                           /\ pc' = "gate"
                           /\ UNCHANGED faults
                      ELSE /\ faults < budget.faults
                           /\ faults' = faults + 1
                           /\ sel' = sel
                           /\ pc' = "nocontent"
    /\ UNCHANGED <<conf, state, disk, loopv, callv, gotov, products,
                   new_products, idx, retv, stream, startv, endv, last_ckpt,
                   tried>>

\* if not content_found: screenshot; return False.  A screenshot that
\* raises lands in the handler of scrape_page.
NoContent ==
    /\ pc = "nocontent"
    /\ gate_log' = <<>>
    /\ \E shot \in BOOLEAN :
          IF shot
            THEN /\ Return("False", "gatefail", 0)
                 /\ UNCHANGED failed_pages
            ELSE /\ failed_pages' = Append(failed_pages, cur)
                 /\ Return("False", "exception", 0)
    /\ UNCHANGED <<conf, all_products, seen_urls, current_page, disk,
                   loopv, callv, gotov, envv, startv, endv, last_ckpt, tried>>

\* wait_for_timeout, then extract_product_data, which returns the records
\* of the page or, on any error of its own, the empty list.  An error of
\* the page handle before it lands in the handler of scrape_page.
Extract ==
    /\ pc = "ready"
    /\ gate_log' = <<>>
    /\ \/ \E r \in PageResults(IF budget.records - Len(stream) < budget.pagelen
                                 THEN budget.records - Len(stream)
                                 ELSE budget.pagelen,
                               UrlsOf(start_products) \cup UrlsOf(stream)) :
             /\ products' = r
             /\ new_products' = <<>>
             /\ idx' = 1
             /\ pc' = "merge"
             /\ UNCHANGED <<failed_pages, retv, sel, faults>>
       \/ /\ faults < budget.faults
          /\ faults' = faults + 1
          /\ failed_pages' = Append(failed_pages, cur)
          /\ Return("False", "exception", 0)
    /\ UNCHANGED <<conf, all_products, seen_urls, current_page, disk,
                   loopv, callv, gotov, stream, startv, endv, last_ckpt, tried>>

\* A merge without the duplicate test.
IsNewAlways(p, seen) == TRUE

\* if p['url'] not in self.seen_urls
IsNew(p, seen) == p.url \notin seen

\* A merge that forgets seen_urls.add.
MergeOneNoAdd(p, seen, new) ==
    IF p.url \notin seen
      THEN [seen |-> seen, new |-> Append(new, p)]
      ELSE [seen |-> seen, new |-> new]

\* A merge that puts a new record in front of the page's earlier ones.
MergeOneInFront(p, seen, new) ==
    IF p.url \notin seen
      THEN [seen |-> seen \cup {p.url}, new |-> <<p>> \o new]
      ELSE [seen |-> seen, new |-> new]

\* One iteration of the loop over products.
MergeOne(p, seen, new) ==
    IF IsNew(p, seen)
      THEN [seen |-> seen \cup {p.url}, new |-> Append(new, p)]
      ELSE [seen |-> seen, new |-> new]

\* The loop over products from position k on.
RECURSIVE MergeFrom(_, _, _, _)
MergeFrom(list, k, seen, new) ==
    IF k > Len(list) THEN [seen |-> seen, new |-> new]
    ELSE LET m == MergeOne(list[k], seen, new)
         IN  MergeFrom(list, k + 1, m.seen, m.new)

\* The whole merge of one page into a collection: the loop, then extend.
MergePage(items, seen, list) ==
    LET m == MergeFrom(list, 1, seen, <<>>)
    IN  [items |-> items \o m.new, seen |-> m.seen]

MergeStep ==
    /\ pc = "merge"
    /\ idx <= Len(products)
    /\ LET m == MergeOne(products[idx], seen_urls, new_products)
       IN  /\ seen_urls' = m.seen
           /\ new_products' = m.new
    /\ idx' = idx + 1
    /\ UNCHANGED <<pc, conf, all_products, failed_pages, current_page,
                   disk, loopv, callv, gotov, sel, products, retv, envv,
                   startv, endv, histv>>

\* A scrape_page for which only a new record is a success.
PageResultNewOnly(raw, new) == IF new # <<>> THEN "True" ELSE "False"

\* What scrape_page returns after the merge: True with a new record, False
\* without any raw record, True when every raw record was a duplicate.
PageResult(raw, new) ==
    IF new # <<>> THEN "True"
    ELSE IF Len(raw) = 0 THEN "False"
    ELSE "True"

\* if new_products: extend, return True; else return len(products) != 0
MergeEnd ==
    /\ pc = "merge"
    /\ idx > Len(products)
    /\ IF new_products # <<>>
         THEN /\ all_products' = all_products \o new_products
              /\ Return(PageResult(products, new_products), "new",
                        Len(new_products))
         ELSE /\ UNCHANGED all_products
              /\ Return(PageResult(products, new_products),
                        IF Len(products) = 0 THEN "empty" ELSE "dups", 0)
    /\ stream' = stream \o products
    /\ UNCHANGED <<conf, failed_pages, seen_urls, current_page, disk,
                   loopv, callv, gotov, faults, startv, endv, histv>>

\* ------------------------------------------------ scrape_all_pages, cont.
\* success = await self.scrape_page(page, page_num); if not success: probe
\* page_num + 1.
AfterMain ==
    /\ pc = "sp_ret"
    /\ ~probe
    /\ main_kind' = kind
    /\ IF sp_result = "False"
         THEN CallScrapePage(page_num + 1, TRUE)
         ELSE /\ pc' = "ckpt"
              /\ UNCHANGED <<callv, gotov>>
    /\ sp_result' = "none"
    /\ UNCHANGED <<conf, state, disk, page_num, fp0, broke, pagev, kind,
                   n_new, streak, streak_page, envv, startv, endv, histv>>

\* A cursor that steps back after a lookahead.
AdvanceBack(p) == p - 1

\* self.current_page = page_num + 1
AdvanceTo(p) == p + 1

\* A lookahead whose failure ends nothing.
ConfirmedEndNever(test_success) == FALSE

\* if not test_success: break
ConfirmedEnd(test_success) == test_success = "False"

\* test_success = await self.scrape_page(page, page_num + 1): break, or
\* self.current_page = page_num + 1.
AfterProbe ==
    /\ pc = "sp_ret"
    /\ probe
    /\ IF ConfirmedEnd(sp_result)
         THEN /\ broke' = TRUE
              /\ pc' = "final_save"
              /\ UNCHANGED current_page
         ELSE /\ current_page' = AdvanceTo(page_num)
              /\ pc' = "ckpt"
              /\ UNCHANGED broke
    /\ sp_result' = "none"
    /\ UNCHANGED <<conf, all_products, failed_pages, seen_urls, disk,
                   page_num, fp0, main_kind, callv, gotov, pagev, kind, n_new,
                   streak, streak_page, envv, startv, endv, histv>>

\* ---------------------------------------------------------- save_progress
\* A checkpoint that leaves the failed pages out.
SnapshotNoFailed ==
    [status |-> "ok", products |-> all_products,
     pages_scraped |-> current_page - 1, failed_pages |-> <<>>]

\* The JSON object save_progress dumps (the fields load_progress reads).
Snapshot ==
    [status |-> "ok", products |-> all_products,
     pages_scraped |-> current_page - 1, failed_pages |-> failed_pages]

\* tokbd_products.json after save_progress: open(filename, 'w') fails and
\* leaves the file alone, or truncates it and json.dump completes or fails.
WriteFile(outcome, old) ==
    IF outcome = "ok" THEN Snapshot
    ELSE IF outcome = "open_failed" THEN old
    ELSE Unparsable

WriteOutcomes == {"ok", "open_failed", "dump_failed"}

\* return filename, or None from the handler of save_progress.
SaveReturn(outcome) == IF outcome = "ok" THEN "file" ELSE "None"

\* The cadence of every tenth page.
CheckpointDueTenth(n) == n % (2 * CheckpointEvery) = 0

\* if page_num % 5 == 0
CheckpointDue(n) == n % CheckpointEvery = 0

\* A save_progress whose failure raises into scrape_all_pages.
AfterSaveRaising(outcome) == IF outcome = "ok" THEN "sleep" ELSE "fatal"

\* Where the loop goes after the cadence save: save_progress absorbs every
\* error of the write, so to the inter-page sleep.
AfterSave(outcome) == "sleep"

\* if page_num % 5 == 0: await self.save_progress()
Checkpoint ==
    /\ pc = "ckpt"
    /\ IF CheckpointDue(page_num)
         THEN \E outcome \in WriteOutcomes :
                 /\ file' = WriteFile(outcome, file)
                 /\ saved' = SaveReturn(outcome)
                 /\ pc' = AfterSave(outcome)
                 /\ fatal' = (AfterSave(outcome) = "fatal")
                 /\ last_ckpt' = page_num
         ELSE /\ pc' = "sleep"
              /\ UNCHANGED <<file, saved, fatal, last_ckpt>>
    /\ UNCHANGED <<conf, state, emergency, loopv, callv, gotov, pagev,
                   retv, envv, startv, tried, gate_log>>

\* A loop that stays on its page.
NextPageSame(p) == p

\* The next value of range(self.current_page, max_pages + 1).
NextPage(p) == p + 1

\* await asyncio.sleep(2), then the next iteration.
Sleep ==
    /\ pc = "sleep"
    /\ page_num' = NextPage(page_num)
    /\ pc' = "loop"
    /\ kind' = "none"
    /\ main_kind' = "none"
    /\ n_new' = 0
    /\ fp0' = failed_pages
    /\ saved' = "none"
    /\ UNCHANGED <<conf, state, disk, broke, callv, gotov, pagev, sp_result,
                   streak, streak_page, envv, startv, fatal, histv>>

\* final_file = await self.save_progress(), the summary, the cleanup.
FinalSave ==
    /\ pc = "final_save"
    /\ \E outcome \in WriteOutcomes :
          /\ file' = WriteFile(outcome, file)
          /\ saved' = SaveReturn(outcome)
    /\ pc' = "done"
    /\ UNCHANGED <<conf, state, emergency, loopv, callv, gotov, pagev,
                   retv, envv, startv, fatal, histv>>

\* A handler that never writes the backup.
NeedsBackupNever(items) == FALSE

\* if self.all_products
NeedsBackup(items) == items # <<>>

\* json.dump(self.all_products, f): the items list alone.
EmergencyDump(items) == [status |-> "ok", items |-> items]

\* except Exception: if self.all_products: dump them to the emergency file.
\* A failing write raises out of the handler.
Fatal ==
    /\ pc = "fatal"
    /\ IF NeedsBackup(all_products)
         THEN \E ok \in BOOLEAN :
                 IF ok THEN /\ emergency' = EmergencyDump(all_products)
                            /\ pc' = "done"
                       ELSE /\ emergency' = [status |-> "unparsable", items |-> <<>>]
                            /\ pc' = "raised"
         ELSE /\ UNCHANGED emergency
              /\ pc' = "done"
    /\ UNCHANGED <<conf, state, file, loopv, callv, gotov, pagev, retv,
                   envv, startv, endv, histv>>

\* ------------------------------------------------------------ interrupt
\* The awaits of scrape_all_pages and of what it calls: setup_browser,
\* page.goto, wait_for_selector, screenshot, wait_for_timeout and
\* page.evaluate, asyncio.sleep.
SuspensionPoints ==
    {"setup", "goto", "commit", "gate", "nocontent", "ready", "sleep"}

\* An operator abort or a task cancellation raises KeyboardInterrupt or
\* CancelledError at the pending await.  Neither is an Exception: no
\* handler of scrape_page, safe_goto or scrape_all_pages catches it, the
\* finally clause of scrape_all_pages closes the browser and writes
\* nothing, and the exception leaves asyncio.run(main()).
Interrupt ==
    /\ pc \in SuspensionPoints
    /\ pc' = "cancelled"
    /\ UNCHANGED <<conf, state, disk, loopv, callv, gotov, pagev, retv,
                   envv, startv, endv, histv>>

\* The exit status of the process: 0 once main has returned, 1 once an
\* exception has left asyncio.run(main()), NotExited while it runs.
NotExited == -1

ExitStatus ==
    IF pc = "done" THEN 0
    ELSE IF pc \in {"raised", "cancelled"} THEN 1
    ELSE NotExited

Next ==
    \/ MainFull
    \/ MainResume
    \/ SetupBrowser
    \/ LoopNext
    \/ GotoStrategy
    \/ GotoCommit
    \/ AfterGoto
    \/ GateProbe
    \/ NoContent
    \/ Extract
    \/ MergeStep
    \/ MergeEnd
    \/ AfterMain
    \/ AfterProbe
    \/ Checkpoint
    \/ Sleep
    \/ FinalSave
    \/ Fatal
    \/ Interrupt

Spec == Init /\ [][Next]_vars

\* The single thread of control keeps running: every await returns or
\* raises, so a step that is possible is taken.
FairSpec == Spec /\ WF_vars(Next)

\* ============================================================ skinnora.py
\* SkinnoraScraper.scrape_all_pages as main's choice "2" runs it. A page is
\* one step: scrape_page returns in one of the ways its code distinguishes.
MaxTotalPages == 11   \* the largest page number the pagination shows
SkNumUrls == 2        \* distinct product urls the shop can serve
SkPageLen == 2        \* records one extraction returns at most
MaxSkItems == 2       \* records extracted in a run
MaxSkFaults == 2      \* pages of a run that end in failed_pages

SkCheckpointEvery == 10

\* A record of extract_product_data: the product url.
SkRec(u) == [product_url |-> u]

\* What extract_product_data can return when the run has room for more:
\* the cards of one listing page, which shows a product once.
SkPageResults(room) ==
    UNION {{f \in [1..n -> {SkRec(u) : u \in 1..SkNumUrls}] :
               \A j, k \in 1..n : j # k => f[j] # f[k]}
              : n \in 0..(IF room < SkPageLen THEN room ELSE SkPageLen)}

\* The ways one scrape_page call can go.
SkOutcomes == {"navfail", "nocontent", "exception", "extracted"}

\* get_total_pages: the largest page number of the pagination, 1 without a
\* pagination element and 1 when the evaluation raised.
GetTotalPages(seen) ==
    IF seen \in {NoIndicator, EvaluateFailed} THEN 1 ELSE seen

\* The variables of TokBDScraper.
tokv == <<pc, state, disk, loopv, callv, gotov, pagev, retv, startv, envv,
          max_retries, budget, file0, endv, histv>>

\* SkinnoraScraper.__init__; tokbd.py is not run.
SkInit ==
    /\ InitWith({DefaultMaxRetries}, {Absent}, 0, 0, 0)
    /\ SkConstructed("main")
    /\ CpStarted("off", <<>>, 0)

\* playwright, browser, context, page = await self.setup_browser()
SkSetupBrowser ==
    /\ sk_pc = "main"
    /\ \E ok \in BOOLEAN : sk_pc' = IF ok THEN "first" ELSE "fatal"
    /\ UNCHANGED <<tokv, cpv, total_pages, sk_all_products, sk_failed_pages,
                   sk_current_page, sk_page_num, sk_success, sk_file,
                   sk_emergency, indicator, visited>>

\* safe_goto(page, self.base_url), raise if it failed; the wait for the
\* first product (its result is only logged); get_total_pages.
SkDiscover ==
    /\ sk_pc = "first"
    /\ \E loaded_first \in BOOLEAN :
          IF loaded_first
            THEN \E seen \in {EvaluateFailed, NoIndicator} \cup 1..MaxTotalPages :
                    /\ indicator' = seen
                    /\ total_pages' = GetTotalPages(seen)
                    /\ sk_page_num' = 1
                    /\ sk_pc' = "loop"
            ELSE /\ sk_pc' = "fatal"
                 /\ UNCHANGED <<indicator, total_pages, sk_page_num>>
    /\ UNCHANGED <<tokv, cpv, sk_all_products, sk_failed_pages, sk_current_page,
                   sk_success, sk_file, sk_emergency, visited>>

\* A range that runs one page past the total.
SkInRangeBeyond(p, total) == p <= total + 1

\* page_num in range(1, self.total_pages + 1)
SkInRange(p, total) == p <= total

\* for page_num in range(1, self.total_pages + 1):
\*     self.current_page = page_num
SkLoopNext ==
    /\ sk_pc = "loop"
    /\ IF SkInRange(sk_page_num, total_pages)
         THEN /\ sk_current_page' = sk_page_num
              /\ sk_pc' = "page"
         ELSE /\ sk_pc' = "final_save"
              /\ UNCHANGED sk_current_page
    /\ UNCHANGED <<tokv, cpv, total_pages, sk_all_products, sk_failed_pages,
                   sk_page_num, sk_success, sk_file, sk_emergency, indicator,
                   visited>>

\* self.all_products.extend(products)
SkExtend(items, prods) == items \o prods

\* self.failed_pages.append(page_num): after a failed navigation and in the
\* handler of scrape_page; not after a missed gate or an empty extraction.
SkRecordsFailure(how) == how \in {"navfail", "exception"}

SkFailedAfter(fp, p, how) == IF SkRecordsFailure(how) THEN Append(fp, p) ELSE fp

\* What scrape_page returns.
SkPageResult(how, prods) ==
    IF how = "extracted" /\ prods # <<>> THEN "True" ELSE "False"

\* success = await self.scrape_page(page, page_num)
SkScrapePage ==
    /\ sk_pc = "page"
    /\ \E how \in SkOutcomes :
       \E prods \in SkPageResults(MaxSkItems - Len(sk_all_products)) :
          /\ how # "extracted" => prods = <<>>
          /\ SkRecordsFailure(how) => Len(sk_failed_pages) < MaxSkFaults
          /\ sk_all_products' = SkExtend(sk_all_products, prods)
          /\ sk_failed_pages' = SkFailedAfter(sk_failed_pages, sk_page_num, how)
          /\ sk_success' = SkPageResult(how, prods)
    /\ visited' = Append(visited, sk_page_num)
    /\ sk_pc' = "ckpt"
    /\ UNCHANGED <<tokv, cpv, total_pages, sk_current_page, sk_page_num, sk_file,
                   sk_emergency, indicator>>

\* The JSON object save_progress of skinnora.py dumps.
SkSnapshot ==
    [status |-> "ok", products |-> sk_all_products,
     pages_scraped |-> sk_current_page - 1, failed_pages |-> sk_failed_pages]

\* skinnora_products.json after save_progress.
SkWriteFile(outcome, old) ==
    IF outcome = "ok" THEN SkSnapshot
    ELSE IF outcome = "open_failed" THEN old
    ELSE Unparsable

\* if page_num % 10 == 0: await self.save_progress()
SkCheckpoint ==
    /\ sk_pc = "ckpt"
    /\ IF sk_page_num % SkCheckpointEvery = 0
         THEN \E outcome \in WriteOutcomes :
                 sk_file' = SkWriteFile(outcome, sk_file)
         ELSE UNCHANGED sk_file
    /\ sk_pc' = "sleep"
    /\ UNCHANGED <<tokv, cpv, total_pages, sk_all_products, sk_failed_pages,
                   sk_current_page, sk_page_num, sk_success, sk_emergency,
                   indicator, visited>>

\* The next value of range(1, self.total_pages + 1).
SkNextPage(p) == p + 1

\* await asyncio.sleep(2), then the next iteration.
SkSleep ==
    /\ sk_pc = "sleep"
    /\ sk_page_num' = SkNextPage(sk_page_num)
    /\ sk_success' = "none"
    /\ sk_pc' = "loop"
    /\ UNCHANGED <<tokv, cpv, total_pages, sk_all_products, sk_failed_pages,
                   sk_current_page, sk_file, sk_emergency, indicator, visited>>

\* final_file = await self.save_progress(), the summary, the cleanup.
SkFinalSave ==
    /\ sk_pc = "final_save"
    /\ \E outcome \in WriteOutcomes : sk_file' = SkWriteFile(outcome, sk_file)
    /\ sk_pc' = "done"
    /\ UNCHANGED <<tokv, cpv, total_pages, sk_all_products, sk_failed_pages,
                   sk_current_page, sk_page_num, sk_success, sk_emergency,
                   indicator, visited>>

\* except Exception: the emergency backup if there are products, the cleanup.
SkFatal ==
    /\ sk_pc = "fatal"
    /\ sk_emergency' = IF sk_all_products # <<>>
                         THEN [status |-> "ok", items |-> sk_all_products]
                         ELSE sk_emergency
    /\ sk_pc' = "raised"
    /\ UNCHANGED <<tokv, cpv, total_pages, sk_all_products, sk_failed_pages,
                   sk_current_page, sk_page_num, sk_success, sk_file,
                   indicator, visited>>

SkNext ==
    \/ SkSetupBrowser
    \/ SkDiscover
    \/ SkLoopNext
    \/ SkScrapePage
    \/ SkCheckpoint
    \/ SkSleep
    \/ SkFinalSave
    \/ SkFatal

SkSpec == SkInit /\ [][SkNext]_vars

\* Every await of the run returns or raises.
SkFairSpec == SkSpec /\ WF_vars(SkNext)

\* ====================================================== compare_prices.py
\* The matching loop of main. The products of both files are known by their
\* position; scores[i][j] is fuzz.token_set_ratio of the normalized names of
\* product i of file 1 and product j of file 2.
MaxFile1 == 2         \* products load_products reads from file 1 at most
MaxFile2 == 2         \* products load_products reads from file 2 at most
LowScore == 80        \* a ratio between 0 and the default threshold

DefaultThreshold == 85
MaxScore == 100

Scores == {0, LowScore, MaxScore}

Thresholds == {LowScore, DefaultThreshold}

ScoreTables ==
    UNION {[1..n1 -> [1..n2 -> Scores]] : n1 \in 0..MaxFile1, n2 \in 0..MaxFile2}

\* len(products1) and len(products2)
Len1 == Len(scores)
Len2 == IF Len(scores) = 0 THEN 0 ELSE Len(scores[1])

\* compare_prices.py is run; the scrapers are not.
CpInit ==
    /\ InitWith({DefaultMaxRetries}, {Absent}, 0, 0, 0)
    /\ SkConstructed("off")
    /\ \E table \in ScoreTables, limit \in Thresholds :
          CpStarted("main", table, limit)

\* The loads; if not products1 or not products2: return
CpLoad ==
    /\ cp_pc = "main"
    /\ cp_pc' = IF Len1 = 0 \/ Len2 = 0 THEN "returned" ELSE "outer"
    /\ UNCHANGED <<tokv, skv, scores, threshold, p1_idx, p2_idx, best_score,
                   best_idx, matches, matched_file2_indices>>

\* for i, p1 in enumerate(products1): best_score = 0, best_idx = -1
CpOuter ==
    /\ cp_pc = "outer"
    /\ IF p1_idx <= Len1
         THEN /\ best_score' = 0
              /\ best_idx' = NoIdx
              /\ p2_idx' = 1
              /\ cp_pc' = "inner"
         ELSE /\ cp_pc' = "sort"
              /\ UNCHANGED <<best_score, best_idx, p2_idx>>
    /\ UNCHANGED <<tokv, skv, scores, threshold, p1_idx, matches,
                   matched_file2_indices>>

\* A comparison that lets a later equal score win.
BetterOrEqual(score, best) == score >= best

\* if score > best_score
Better(score, best) == score > best

\* One iteration of for j, p2 in enumerate(products2): the skip of a matched
\* index, the comparison, and the break at a score of 100.
CpInner ==
    /\ cp_pc = "inner"
    /\ IF p2_idx > Len2
         THEN /\ cp_pc' = "pick"
              /\ UNCHANGED <<p2_idx, best_score, best_idx>>
         ELSE IF p2_idx \in matched_file2_indices
         THEN /\ p2_idx' = p2_idx + 1
              /\ UNCHANGED <<cp_pc, best_score, best_idx>>
         ELSE LET score == scores[p1_idx][p2_idx]
                  better == Better(score, best_score)
                  best == IF better THEN score ELSE best_score
              IN  /\ best_score' = best
                  /\ best_idx' = IF better THEN p2_idx ELSE best_idx
                  /\ IF best = MaxScore
                       THEN cp_pc' = "pick" /\ UNCHANGED p2_idx
                       ELSE p2_idx' = p2_idx + 1 /\ UNCHANGED cp_pc
    /\ UNCHANGED <<tokv, skv, scores, threshold, p1_idx, matches,
                   matched_file2_indices>>

\* if best_match and best_score >= args.threshold
Accepted(at, score, limit) == at # NoIdx /\ score >= limit

\* matches.append(...), matched_file2_indices.add(best_idx), next i
CpPick ==
    /\ cp_pc = "pick"
    /\ IF Accepted(best_idx, best_score, threshold)
         THEN /\ matches' = Append(matches, [score |-> best_score,
                                             f1 |-> p1_idx, f2 |-> best_idx])
              /\ matched_file2_indices' = matched_file2_indices \cup {best_idx}
         ELSE UNCHANGED <<matches, matched_file2_indices>>
    /\ p1_idx' = p1_idx + 1
    /\ cp_pc' = "outer"
    /\ UNCHANGED <<tokv, skv, scores, threshold, p2_idx, best_score, best_idx>>

\* Where a stable sort by descending score puts m in the sorted list s.
RECURSIVE InsertByScore(_, _)
InsertByScore(s, m) ==
    IF s = <<>> THEN <<m>>
    ELSE IF s[1].score >= m.score THEN <<s[1]>> \o InsertByScore(Tail(s), m)
    ELSE <<m>> \o s

\* matches.sort(key=lambda x: x['score'], reverse=True)
RECURSIVE SortByScore(_)
SortByScore(s) ==
    IF s = <<>> THEN <<>>
    ELSE InsertByScore(SortByScore(SubSeq(s, 1, Len(s) - 1)), s[Len(s)])

\* The sort of matches; the CSV is written from the sorted list.
CpSort ==
    /\ cp_pc = "sort"
    /\ matches' = SortByScore(matches)
    /\ cp_pc' = "done"
    /\ UNCHANGED <<tokv, skv, scores, threshold, p1_idx, p2_idx, best_score,
                   best_idx, matched_file2_indices>>

CpNext ==
    \/ CpLoad
    \/ CpOuter
    \/ CpInner
    \/ CpPick
    \/ CpSort

CpSpec == CpInit /\ [][CpNext]_vars

\* ============================================================ properties
InSeq(x, s) == \E k \in 1..Len(s) : s[k] = x

IsPrefix(s, t) == Len(s) <= Len(t) /\ SubSeq(t, 1, Len(s)) = s

DistinctUrls(items) ==
    \A j, k \in 1..Len(items) : j # k => items[j].url # items[k].url

AllHaveUrl(items) == \A k \in 1..Len(items) : HasUrl(items[k])

DistinctPages(pages) ==
    \A j, k \in 1..Len(pages) : j # k => pages[j] # pages[k]

\* pc is inside scrape_page (safe_goto, gate, extraction, merge, return).
InScrapePage ==
    pc \in {"goto", "commit", "goto_ret", "gate", "nocontent", "ready",
            "merge", "sp_ret"}

\* pc is inside the for loop of scrape_all_pages.
InPageLoop == InScrapePage \/ pc \in {"loop", "ckpt", "sleep"}

FailKinds == {"navfail", "gatefail", "exception", "empty"}

\* ------------------------------------------------------------------- C1
\* C1: from a fresh scraper, or from a checkpoint whose products all have a
\* url and have pairwise distinct urls, all_products never holds two
\* records with the same url, whatever the pages return.
C1_NoDuplicateUrls ==
    (AllHaveUrl(start_products) /\ DistinctUrls(start_products))
        => DistinctUrls(all_products)

\* A resumed run met a page whose records were all in the checkpoint.
C1_Witness ==
    /\ loaded = "True"
    /\ start_products # <<>>
    /\ pc = "sp_ret"
    /\ kind = "dups"
    /\ all_products = start_products

\* ------------------------------------------------------------------- C2
\* C2: seen_urls is exactly the set of urls of all_products in every
\* reachable state: inside a page merge and after load_progress returned
\* True or False as well.
C2_SeenMirrorsItems == seen_urls = UrlsOf(all_products)

\* ------------------------------------------------------------------- C3
\* C3: in every collection state a merge can start from and for every list
\* of extracted records, merging the list a second time changes neither
\* all_products nor seen_urls, and a merge leaves the records stored before
\* it as they were.
C3_MergeIdempotent ==
    pc = "ready" =>
        \A list \in PageResults(MaxPageLen, Urls) :
            LET once == MergePage(all_products, seen_urls, list)
                twice == MergePage(once.items, once.seen, list)
            IN  /\ twice.items = once.items
                /\ twice.seen = once.seen
                /\ IsPrefix(all_products, once.items)

\* The same two-record page was merged twice in a row and the second merge
\* added nothing.
C3_Witness ==
    /\ pc = "sp_ret"
    /\ kind = "dups"
    /\ Len(stream) = 4
    /\ SubSeq(stream, 1, 2) = SubSeq(stream, 3, 4)
    /\ all_products = SubSeq(stream, 1, 2)

\* ------------------------------------------------------------------- C4
\* Position k of s holds the first occurrence of a url not in seen.
IsFirst(s, seen, k) ==
    s[k].url \notin seen /\ \A j \in 1..(k - 1) : s[j].url # s[k].url

RECURSIVE FirstFrom(_, _, _)
FirstFrom(s, seen, k) ==
    IF k > Len(s) THEN <<>>
    ELSE (IF IsFirst(s, seen, k) THEN <<s[k]>> ELSE <<>>) \o FirstFrom(s, seen, k + 1)

\* C4: all_products is what the run started with, followed by the first
\* occurrence of every url the pages brought, in page order and in
\* extraction order within a page; and no step removes or reorders an
\* entry (the old all_products is a prefix of the new one).
C4_OrderPreserved ==
    /\ [](all_products = start_products \o FirstFrom(stream, start_seen, 1))
    /\ [][IsPrefix(all_products, all_products')]_vars

\* Page 1 = [A, B], page 2 = [C, A] gave [A, B, C].
C4_Witness ==
    /\ start_products = <<>>
    /\ stream = <<Rec(1, 1), Rec(2, 2), Rec(3, 1), Rec(1, 2)>>
    /\ all_products = <<Rec(1, 1), Rec(2, 2), Rec(3, 1)>>


\* ------------------------------------------------------------------- C5
AllTimeouts == \A k \in 1..Len(attempts) : attempts[k] = "timeout"

\* The delays 5, 10, ..., 5 * n.
Schedule(n) == [k \in 1..n |-> 5 * k]

\* C5: while every attempt of a safe_goto call has ended in a timeout, at
\* most max_retries attempts were made, the sleep after attempt k was 5 * k
\* seconds, no sleep followed attempt max_retries, and False is returned
\* exactly when attempt max_retries has timed out.
C5_BackoffSchedule ==
    AllTimeouts =>
        /\ Len(attempts) <= max_retries
        /\ delays = Schedule(IF Len(attempts) < max_retries
                               THEN Len(attempts) ELSE max_retries - 1)
        /\ (goto_result = "False") <=> (Len(attempts) = max_retries)

\* max_retries = 3: three timeouts, sleeps of 5 and 10, then False.
C5_Witness ==
    /\ max_retries = 3
    /\ pc = "goto_ret"
    /\ attempts = <<"timeout", "timeout", "timeout">>
    /\ delays = <<5, 10>>
    /\ goto_result = "False"

\* ------------------------------------------------------------------- C6
\* C6: a safe_goto call in which an attempt ended in an error that is no
\* timeout returns False only after max_retries attempts, as it does for
\* timeouts.
C6_ErrorRetriedLikeTimeout ==
    (goto_result = "False" /\ InSeq("error", attempts))
        => Len(attempts) = max_retries

\* ------------------------------------------------------------------- C7
\* C7: when main-loop page p brought no record and the lookahead of p + 1
\* brought a new one, the loop goes on with current_page = p + 1 and p is
\* in failed_pages.
C7_LookaheadRecordsFailedPage ==
    (pc = "ckpt" /\ probe /\ main_kind \in FailKinds /\ n_new >= 1)
        => /\ current_page = page_num + 1
           /\ InSeq(page_num, failed_pages)

\* ------------------------------------------------------------------- C8
\* The claim as made: once main-loop page p and page p + 1 have both
\* brought no new record, no page beyond p + 1 is fetched.
C8_NoNewRecordsEndsRun ==
    streak = 2 => ~(InScrapePage /\ cur > streak_page)

\* C8: when the main-loop call for page p and the lookahead call for p + 1
\* both return False (navigation failure, gate miss, error or no raw
\* record), the loop is left at once: p + 1 is the last page fetched and
\* the entries this iteration added to failed_pages are among p and p + 1.
C8_EndOfCatalog ==
    /\ (probe /\ ~InScrapePage /\ pc # "cancelled"
            /\ main_kind \in FailKinds /\ kind \in FailKinds)
          => broke
    /\ broke =>
          /\ ~InPageLoop
          /\ cur = page_num + 1
          /\ IsPrefix(fp0, failed_pages)
          /\ \A k \in (Len(fp0) + 1)..Len(failed_pages) :
                 failed_pages[k] \in {page_num, page_num + 1}

\* The catalog ended: a page without a raw record, then another one.
C8_Witness ==
    /\ broke
    /\ main_kind = "empty"
    /\ kind = "empty"
    /\ all_products # <<>>

\* ------------------------------------------------------------------- C9
\* C9: a page whose navigation succeeded and whose gate probes all missed
\* is in failed_pages when scrape_page returns, and scrape_page returns
\* False as for a navigation failure.
C9_GateFailureRecorded ==
    (pc = "sp_ret" /\ kind = "gatefail")
        => /\ sp_result = "False"
           /\ InSeq(cur, failed_pages)

\* ------------------------------------------------------------------ C10
\* C10: after load_progress returned True on a checkpoint with
\* pages_scraped = n, the run starts with current_page = n + 1,
\* all_products the persisted products in order and seen_urls the set of
\* their urls, and scrape_page is never called for a page in 1..n.
C10_ResumeCorrect ==
    loaded = "True" =>
        /\ pc = "setup" =>
              /\ current_page = ckpt0.pages_scraped + 1
              /\ all_products = ckpt0.products
              /\ seen_urls = UrlsOf(ckpt0.products)
        /\ InScrapePage => cur > ckpt0.pages_scraped
        /\ current_page > ckpt0.pages_scraped

\* A run resumed after page 1 is fetching page 2 with the product loaded.
C10_Witness ==
    /\ loaded = "True"
    /\ ckpt0.pages_scraped = 1
    /\ ckpt0.products # <<>>
    /\ pc = "goto"
    /\ cur = 2
    /\ all_products = ckpt0.products

\* ------------------------------------------------------------------ C11
\* The JSON object a save_progress call is writing.
IsNewCheckpoint(f) ==
    /\ f.status = "ok"
    /\ f.products = all_products
    /\ f.pages_scraped = current_page - 1
    /\ f.failed_pages = failed_pages

\* C11: a checkpoint write is atomic: after every step tokbd_products.json
\* is the complete checkpoint it was before the step or the complete new
\* one, never an empty or partly written file.
C11_CheckpointAtomic ==
    [][file' = file \/ IsNewCheckpoint(file')]_vars

\* ------------------------------------------------------------------ C12
\* C12: max_pages is a hard cap: no scrape_page call, a lookahead at page
\* max_pages included, is for a page beyond max_pages, and current_page
\* never exceeds max_pages.
C12_PageCeiling ==
    /\ InScrapePage => cur <= MaxPages
    /\ current_page <= MaxPages

\* ------------------------------------------------------------------ C13
\* The checkpoint or the emergency backup holds every record of
\* all_products.
ItemsOnDisk ==
    \/ file.status = "ok" /\ file.products = all_products
    \/ emergency.status = "ok" /\ emergency.items = all_products

\* C13: however a run ends (range exhausted, end-of-catalog break, fatal
\* exception, failed final save), if all_products is not empty a file on
\* disk holds every record of it when the run has stopped.
C13_NoSilentLoss ==
    (pc \in {"done", "raised"} /\ all_products # <<>>) => ItemsOnDisk

\* ------------------------------------------------------------------ C14
\* C14: an interrupt at a suspension point of scrape_all_pages is finalized
\* like a normal end: the records collected so far are in the checkpoint or
\* in an emergency file when the process has stopped.
C14_InterruptFlushes ==
    (pc = "cancelled" /\ all_products # <<>>)
        => ItemsOnDisk

\* ------------------------------------------------------------------ C15
\* C15: when the handler of scrape_all_pages has run with all_products not
\* empty and its write completed, the emergency file holds the items list
\* alone, equal to all_products; it is another file than the checkpoint,
\* which no step of this path changes.
C15_EmergencyItemsOnly ==
    /\ []((pc = "done" /\ fatal /\ all_products # <<>>)
            => (/\ emergency.status = "ok"
                /\ emergency.items = all_products
                /\ DOMAIN emergency = {"status", "items"}))
    /\ [][fatal' => file' = file]_vars

\* A resumed run whose browser did not start: the loaded products are in
\* the emergency file and the checkpoint is the one the run found.
C15_Witness ==
    /\ pc = "done"
    /\ fatal
    /\ loaded = "True"
    /\ all_products # <<>>
    /\ emergency.items = all_products
    /\ file = file0

\* ------------------------------------------------------------------ C16
\* C16: a run whose setup_browser failed emergency-saves the items in
\* memory and ends with a non-zero exit status; a run without a fatal
\* failure exits 0.
C16_SetupFailureExitsNonZero ==
    /\ (pc \in {"done", "raised"} /\ fatal /\ page_num = 0)
          => ExitStatus # 0
    /\ (pc = "done" /\ ~fatal) => ExitStatus = 0

\* ------------------------------------------------------------------ C17
\* C17: a cadence save never ends the run and changes nothing in memory,
\* whether its write fails or not: all_products, seen_urls, failed_pages and
\* current_page stay as they are and the loop goes on to the inter-page
\* sleep; the same holds of the final save, after which the run is done;
\* and a save that returns the file name has written the full current
\* state.
C17_SaveFailureAbsorbed ==
    /\ [][pc = "ckpt" => (state' = state /\ pc' = "sleep")]_vars
    /\ [][pc = "final_save" => (state' = state /\ pc' = "done")]_vars
    /\ [](saved = "file" => IsNewCheckpoint(file))

\* The write of the checkpoint after page 5 failed half-way and the loop is
\* fetching page 6.
C17_Witness ==
    /\ pc = "goto"
    /\ ~probe
    /\ cur = CheckpointEvery + 1
    /\ file0.status = "ok"
    /\ file.status = "unparsable"
    /\ all_products # <<>>

\* ------------------------------------------------------------------ C18
\* C18: a run that left the page loop without an exception has called
\* save_progress once more, and if that write succeeded the checkpoint's
\* products are all_products and its failed_pages are the run's
\* failed_pages.
C18_FinalSave ==
    (pc = "done" /\ ~fatal) =>
        /\ saved # "none"
        /\ saved = "file" =>
              /\ file.status = "ok"
              /\ file.products = all_products
              /\ file.failed_pages = failed_pages

\* The loop ended by break with records and a failed page, and the final
\* checkpoint holds both.
C18_Witness ==
    /\ pc = "done"
    /\ broke
    /\ saved = "file"
    /\ all_products # <<>>
    /\ failed_pages # <<>>
    /\ file.products = all_products
    /\ file.failed_pages = failed_pages

\* ------------------------------------------------------------------ C19
\* C19: current_page is 1 until main starts the run (where load_progress
\* may restore it), and from then on no step assigns it a smaller value
\* than it holds.
C19_CursorMonotone ==
    /\ [](pc = "main" => current_page = 1)
    /\ [][pc # "main" => current_page' >= current_page]_vars

\* After a lookahead success the next iteration runs for the page the
\* cursor already points to.
C19_Witness ==
    /\ pc = "goto"
    /\ ~probe
    /\ cur = current_page
    /\ streak_page = cur - 1
    /\ InSeq(Rec(1, 1), stream)
    /\ Len(stream) = 1
    /\ page_num = 2
    /\ all_products = <<Rec(1, 1)>>
    /\ start_products = <<>>

\* ------------------------------------------------------------------ C20
\* C20: once the run has started no step removes an entry of failed_pages,
\* and a step adds a page only when safe_goto returned False for it after
\* max_retries attempts.
C20_FailedPagesOnlyExhausted ==
    /\ [][pc # "main" => IsPrefix(failed_pages, failed_pages')]_vars
    /\ [][(pc # "main" /\ failed_pages' # failed_pages)
            => (/\ failed_pages' = Append(failed_pages, cur)
                /\ goto_result = "False"
                /\ Len(attempts) = max_retries)]_vars

C22_NavFailureLookahead ==
    /\ []((pc = "sp_ret" /\ ~probe /\ kind = "navfail")
            => (sp_result = "False" /\ InSeq(cur, failed_pages) /\ ~broke))
    /\ [][(pc = "sp_ret" /\ ~probe /\ kind = "navfail")
            => (pc' = "goto" /\ probe' /\ cur' = page_num + 1 /\ ~broke')]_vars
    /\ []((probe /\ main_kind = "navfail" /\ pc \in {"ckpt", "final_save"})
            => (/\ (pc = "final_save") <=> (kind \in FailKinds)
                /\ broke <=> (pc = "final_save")
                /\ InSeq(page_num, failed_pages)))

\* Page p could not be loaded, the probe of p + 1 brought a new record and
\* the loop goes on.
C22_Witness ==
    /\ pc = "ckpt"
    /\ probe
    /\ main_kind = "navfail"
    /\ kind = "new"
    /\ ~broke
    /\ InSeq(page_num, failed_pages)

\* ------------------------------------------------------------------ C23
\* C23: every main-loop fetch is for a page beyond the last page passed to
\* scrape_page: after a successful lookahead of p + 1 the next main-loop
\* page is p + 2, and no page goes through the pipeline twice in a run.
C23_NoPageTwice ==
    [][(pc = "loop" /\ pc' = "goto") => cur' > cur]_vars

\* ------------------------------------------------------------------ C24
\* C24: a page whose raw records are all duplicates makes scrape_page
\* return True with all_products and failed_pages unchanged, and the loop
\* goes on without a lookahead; a page without a raw record makes it return
\* False and the loop probes the next page; and the loop is never left by
\* break on a page of duplicates.
C24_DuplicatesAreSuccess ==
    /\ [][(pc = "merge" /\ pc' = "sp_ret" /\ kind' = "dups")
            => (/\ sp_result' = "True"
                /\ all_products' = all_products
                /\ failed_pages' = failed_pages)]_vars
    /\ [][(pc = "sp_ret" /\ ~probe /\ kind = "dups") => pc' = "ckpt"]_vars
    /\ [][(pc = "sp_ret" /\ ~probe /\ kind = "empty")
            => (pc' = "goto" /\ probe')]_vars
    /\ []((pc = "sp_ret" /\ kind = "empty") => sp_result = "False")
    /\ [](broke => (kind # "dups" /\ main_kind # "dups"))

\* A main-loop page of a fresh run brought only records seen before and
\* the loop is about to go on.
C24_Witness ==
    /\ pc = "ckpt"
    /\ ~probe
    /\ loaded = "none"
    /\ main_kind = "dups"
    /\ n_new = 0
    /\ failed_pages = <<>>
    /\ all_products # <<>>

\* ------------------------------------------------------------------ C25
\* C25: the gate of a page is entered only after safe_goto returned True
\* for that page, extraction only after a gate probe matched, the merge
\* only after extraction returned; all_products changes only at the end of
\* a merge; and scrape_page is called for another page only from the loop
\* or after the running call returned.
C25_PipelineOrder ==
    /\ [][(pc' = "gate" /\ pc # "gate")
            => (pc = "goto_ret" /\ goto_result = "True" /\ cur' = cur)]_vars
    /\ [][pc' = "ready"
            => (pc = "gate" /\ cur' = cur
                /\ gate_log'[Len(gate_log')] = "visible")]_vars
    /\ [][pc' = "merge" => (pc \in {"ready", "merge"} /\ cur' = cur)]_vars
    /\ [][(pc # "main" /\ all_products' # all_products)
            => (pc = "merge" /\ idx > Len(products))]_vars
    /\ [][(cur' # cur \/ probe' # probe)
            => (pc \in {"loop", "sp_ret"} /\ pc' = "goto")]_vars
    /\ [][(pc' = "goto" /\ pc \notin {"goto", "commit"})
            => pc \in {"loop", "sp_ret"}]_vars

\* The lookahead of page 2 is merging its second record after page 1 has
\* returned.
C25_Witness ==
    /\ pc = "merge"
    /\ probe
    /\ cur = 2
    /\ idx = 2
    /\ Len(products) = 2
    /\ main_kind # "none"

\* ------------------------------------------------------------------ C26
NoneVisible(log) == \A k \in 1..Len(log) : log[k] \in {"timeout", "error"}

\* C26: the gate probes its selectors in the listed order; it reports
\* content on the first probe that finds its selector visible and probes
\* no later one; it reports no content only after every probe missed; a
\* probe that ends in an error that is no timeout is a miss like a timeout.
C26_GateOrder ==
    /\ pc = "gate" => (Len(gate_log) = sel - 1 /\ NoneVisible(gate_log))
    /\ pc = "ready" =>
          /\ Len(gate_log) = sel
          /\ gate_log[sel] = "visible"
          /\ NoneVisible(SubSeq(gate_log, 1, sel - 1))
    /\ pc = "nocontent" =>
          (Len(gate_log) = NumSelectors /\ NoneVisible(gate_log))

\* The first probe ended in an error, the second found its selector.
C26_Witness ==
    /\ pc = "ready"
    /\ gate_log = <<"error", "visible">>

\* ------------------------------------------------------------------ C27
WaitOrder == <<"networkidle", "domcontentloaded", "load", "commit">>

\* C27: an attempt of safe_goto navigates with networkidle, then
\* domcontentloaded, then load, and returns True at the first that
\* completes; the commit navigation is made once, only after all three
\* failed, and the attempt fails (retry or False) only after it failed too.
C27_StrategyOrder ==
    /\ IsPrefix(tried, WaitOrder)
    /\ pc = "commit" => tried = SubSeq(WaitOrder, 1, 3)
    /\ (pc = "goto_ret" /\ goto_result = "True") =>
          (tried # <<>> /\ attempts[Len(attempts)] = "ok")
    /\ (pc = "goto_ret" /\ goto_result = "False") => tried = WaitOrder
    /\ (pc = "goto" /\ retry_count > 0 /\ strategy = 1) => tried = WaitOrder

\* networkidle failed and domcontentloaded completed: safe_goto returned
\* True without trying load or commit.
C27_Witness ==
    /\ pc = "goto_ret"
    /\ goto_result = "True"
    /\ tried = <<"networkidle", "domcontentloaded">>

\* ------------------------------------------------------------------ C28
\* C28: no step of safe_goto, whatever its outcome, changes all_products,
\* seen_urls, failed_pages or current_page.
C28_GotoKeepsState ==
    [][(pc \in {"goto", "commit"}) => (state' = state)]_vars

\* safe_goto gave up after three attempts; the page is not in failed_pages
\* yet and the records collected before are there.
C28_Witness ==
    /\ pc = "goto_ret"
    /\ goto_result = "False"
    /\ Len(attempts) = 3
    /\ ~InSeq(cur, failed_pages)
    /\ all_products # <<>>

\* ------------------------------------------------------------------ C29
Seeded ==
    /\ all_products = file0.products
    /\ current_page = file0.pages_scraped + 1

Unseeded == all_products = <<>> /\ seen_urls = {} /\ current_page = 1

\* A checkpoint file as save_progress writes it.
WellFormed(f) ==
    f.status = "ok" /\ AllHaveUrl(f.products) /\ f.pages_scraped # BadNumber

\* The claim as made: a run that finds a checkpoint file starts from its
\* products and cursor, only a run that finds none starts empty at page 1,
\* and a checkpoint the run writes holds the products of the one it found.
C29_SeededWheneverPresent ==
    /\ (pc = "setup" /\ WellFormed(file0)) => Seeded
    /\ (pc = "setup" /\ file0.status = "absent") => Unseeded
    /\ (saved = "file" /\ WellFormed(file0))
          => IsPrefix(file0.products, file.products)

\* C29: a resume run whose load_progress returned True starts from the
\* products, cursor and failed pages of the checkpoint, and every checkpoint
\* it writes holds the loaded products; a run that finds no checkpoint file
\* starts empty at page 1; a full run starts empty at page 1 whatever is on
\* disk, and the checkpoint it writes holds its own products only.
C29_ResumeSeeds ==
    /\ (pc = "setup" /\ loaded = "True") =>
          (Seeded /\ failed_pages = file0.failed_pages)
    /\ (loaded = "True" /\ saved = "file")
          => IsPrefix(file0.products, file.products)
    /\ (pc = "setup" /\ file0.status = "absent") => Unseeded
    /\ (pc = "setup" /\ loaded = "none") => Unseeded
    /\ (loaded = "none" /\ saved = "file")
          => file.products = FirstFrom(stream, {}, 1)

\* A full run found a checkpoint with a product and has replaced it by a
\* checkpoint of what it collected itself.
C29_Witness ==
    /\ pc = "done"
    /\ loaded = "none"
    /\ file0.status = "ok"
    /\ file0.products # <<>>
    /\ saved = "file"
    /\ file.products = all_products
    /\ file # file0

\* ------------------------------------------------------------------ C30
Terminated == pc \in {"done", "raised", "cancelled"}

\* Steps a scrape_page call can still take from where it is.
PageRank ==
    LET afterGoto == MaxPageLen + NumSelectors + 3
        attemptsLeft == max_retries - retry_count - 1
    IN  CASE pc = "sp_ret" -> 0
          [] pc = "nocontent" -> 1
          [] pc = "merge" -> Len(products) - idx + 2
          [] pc = "ready" -> MaxPageLen + 2
          [] pc = "gate" -> MaxPageLen + 2 + (NumSelectors - sel + 1)
          [] pc = "goto_ret" -> afterGoto
          [] pc = "commit" ->
                afterGoto + attemptsLeft * (NumStrategies + 1) + 1
          [] pc = "goto" ->
                afterGoto + attemptsLeft * (NumStrategies + 1) + 1
                    + (NumStrategies - strategy + 1)
          [] OTHER -> 0

\* More than the steps of any scrape_page call.
PageCost == MaxPageLen + NumSelectors + 3 + max_retries * (NumStrategies + 1) + 1

\* More than the steps of any iteration: two calls, the checkpoint
\* decision and the sleep.
IterCost == 2 * PageCost + 4

\* Iterations of the loop from page p on.
Remaining(p) == IF p > MaxPages THEN 0 ELSE MaxPages - p + 1

\* A bound on the steps the run can still take.
Rank ==
    CASE Terminated -> 0
      [] pc \in {"final_save", "fatal"} -> 1
      [] pc = "loop" -> Remaining(page_num) * IterCost + 2
      [] pc = "sleep" -> (Remaining(page_num) - 1) * IterCost + 3
      [] pc = "ckpt" -> (Remaining(page_num) - 1) * IterCost + 4
      [] InScrapePage /\ probe ->
            (Remaining(page_num) - 1) * IterCost + 5 + PageRank
      [] InScrapePage /\ ~probe ->
            (Remaining(page_num) - 1) * IterCost + 5 + PageCost + PageRank
      [] pc = "setup" -> MaxPages * IterCost + 3
      [] OTHER -> MaxPages * IterCost + 4

\* The cursor scrape_all_pages started with.
StartCursor == IF loaded = "True" THEN ckpt0.pages_scraped + 1 ELSE 1

\* C30: every run ends, in the final save, the fatal handler or an
\* interrupt: every step lowers a bound that starts from max_pages
\* iterations of at most two scrape_page calls of at most max_retries
\* navigation attempts each; a lookahead is followed by no second one in
\* its iteration; and the loop variable stays within start..max_pages + 1.
C30_Terminates ==
    /\ <>Terminated
    /\ [][Rank' < Rank]_vars
    /\ [](Rank >= 0)
    /\ [](Len(attempts) <= max_retries)
    /\ [][(pc = "sp_ret" /\ probe) => pc' \in {"ckpt", "final_save"}]_vars
    /\ [](page_num > 0 => (page_num >= StartCursor /\ page_num <= MaxPages + 1))

\* A run resumed at the last page has exhausted the range and is done.
C30_Witness ==
    /\ pc = "done"
    /\ ~broke
    /\ ~fatal
    /\ page_num = MaxPages + 1
    /\ saved # "none"

\* ------------------------------------------------------------------ C33
\* C33: once load_progress has returned False, whatever the file held,
\* all_products, seen_urls, current_page and failed_pages are those of the
\* constructor, and the run that follows starts empty at page 1.
C33_LoadAllOrNothing ==
    (pc = "setup" /\ loaded = "False") =>
        /\ all_products = <<>>
        /\ seen_urls = {}
        /\ current_page = 1
        /\ failed_pages = <<>>

\* ------------------------------------------------------------------ C34
\* C34: a checkpoint written at the end of an iteration whose page brought
\* new records counts that page as completed: load_progress of the file
\* gives a cursor beyond the page, so a resumed run does not fetch it again.
C34_SaveLoadCursor ==
    (pc = "sleep" /\ saved = "file" /\ main_kind = "new") =>
        /\ file.products = all_products
        /\ file.pages_scraped >= page_num
        /\ LoadProgress(file).current_page > page_num

\* ------------------------------------------------------------------ C35
\* The checkpoint this run has written is the one a later run resumes from.
WroteEndedAtFirstPage ==
    pc = "done" /\ loaded = "none" /\ saved = "file" /\ file = EndedAtFirstPage

\* C35: failed_pages never holds a page index twice, in a run that started
\* without a checkpoint and in a run resumed from the checkpoint an earlier
\* run wrote when it ended at its first page.
C35_FailedPagesIsSet ==
    (file0 \in {Absent, EndedAtFirstPage}) => DistinctPages(failed_pages)

\* ------------------------------------------------------------------ C31
\* The pages 1, 2, ..., n in ascending order.
UpTo(n) == [k \in 1..n |-> k]

\* C31: once discovery has set total_pages = T, the scrape_page calls are
\* for the pages 1, 2, ... in ascending order, each once and none beyond T,
\* whichever of them fail; the loop always ends normally, and at the end
\* the pages processed are exactly 1..T.
C31_AllPagesOnce ==
    /\ [](visited = UpTo(Len(visited)))
    /\ [](Len(visited) <= total_pages)
    /\ [](sk_pc \in {"final_save", "done"} => visited = UpTo(total_pages))
    /\ [](sk_pc \in {"ckpt", "sleep"} => sk_current_page = Len(visited))
    /\ (sk_pc = "loop") ~> (sk_pc = "done")

\* A catalog of several pages was scraped to its end although pages failed
\* to load, and a cadence checkpoint was written on the way.
C31_Witness ==
    /\ sk_pc = "done"
    /\ total_pages > SkCheckpointEvery
    /\ Len(sk_failed_pages) = MaxSkFaults
    /\ sk_all_products # <<>>
    /\ visited = UpTo(total_pages)
    /\ sk_file.status = "ok"

\* ------------------------------------------------------------------ C32
\* C32: when page 1 shows no pagination element, the run does not end
\* before scrape_page was called for page 2 (the lookahead).
C32_SinglePageLookahead ==
    (sk_pc = "done" /\ indicator = NoIndicator) => InSeq(2, visited)

\* ------------------------------------------------------------------ C36
\* C36: all_products of SkinnoraScraper never holds two records with the
\* same product url.
C36_SkNoDuplicateUrls ==
    \A a, b \in 1..Len(sk_all_products) :
        a # b => sk_all_products[a].product_url # sk_all_products[b].product_url

\* ------------------------------------------------------------------ C37
\* The file-2 products no earlier file-1 product was matched with.
Unmatched(i1) ==
    {j2 \in 1..Len2 :
        ~\E b \in 1..Len(matches) : matches[b].f1 < i1 /\ matches[b].f2 = j2}

\* C37: no file-1 product and no file-2 product is in two matches; every
\* match has the score of its pair, at least the threshold; and the file-2
\* product of a match is the lowest-index one of the highest score among
\* those no earlier file-1 product was matched with.
C37_GreedyMatching ==
    /\ \A a, b \in 1..Len(matches) :
          a # b => (matches[a].f1 # matches[b].f1 /\ matches[a].f2 # matches[b].f2)
    /\ matched_file2_indices = {matches[a].f2 : a \in 1..Len(matches)}
    /\ \A a \in 1..Len(matches) :
          LET m == matches[a]
          IN  /\ m.score = scores[m.f1][m.f2]
              /\ m.score >= threshold
              /\ m.f2 \in Unmatched(m.f1)
              /\ \A j2 \in Unmatched(m.f1) :
                    /\ scores[m.f1][j2] <= m.score
                    /\ scores[m.f1][j2] = m.score => m.f2 <= j2

\* Both file-1 products were matched: the first with the lower of two
\* file-2 products of equal score, the second with what was left although
\* it scores higher with the one already taken.
C37_Witness ==
    /\ cp_pc = "done"
    /\ Len(matches) = 2
    /\ scores[1][1] = scores[1][2]
    /\ scores[2][1] > scores[2][2]
    /\ \E a \in 1..2 : matches[a].f1 = 1 /\ matches[a].f2 = 1
    /\ \E a \in 1..2 : matches[a].f1 = 2 /\ matches[a].f2 = 2
    /\ matches[1].score > matches[2].score

====
